---- MODULE Spec2Model ----
(***************************************************************************)
(* Model of scripts/generate-reports.py: the linear pipeline               *)
(*   load_mapping -> calculate_coverage -> generate_html                   *)
(* run once by the __main__ block.                                         *)
(*                                                                         *)
(* Percentages are kept in tenths of a percent (50.0 is 500).  Python      *)
(* floats are IEEE-754 binary64; the division, the multiplication by 100   *)
(* and round(x, 1) are computed exactly on 53-bit significands, so that    *)
(* the value the model returns is the value CPython returns.               *)
(***************************************************************************)
EXTENDS Integers, Sequences, FiniteSets, TLC

(***************************************************************************)
(* Bounds of the model.                                                    *)
(***************************************************************************)
\* Longest control list enumerated over every order and every status value.
MaxLen == 4
\* Longest control list of the wide specification (lists given by counts).
MaxTotal == 80

(***************************************************************************)
(* IEEE-754 binary64 arithmetic, as used by line 28.                       *)
(* A float is [sig, scale] with value sig * 2^scale, where sig is a        *)
(* natural number of at most 53 significant bits.  sig is kept as five     *)
(* limbs in base 2^13, least significant first (5 * 13 = 65 >= 53 + the    *)
(* 7 bits a product by 100 adds); the top limb holds what is above 2^52.   *)
(***************************************************************************)
\* Width of a binary64 significand (sys.float_info.mant_dig).
MantDig == 53
\* Bits per limb and number of limbs of a significand.
LimbBits == 13
NLimbs == 5

RECURSIVE Pow2(_)
Pow2(k) == IF k = 0 THEN 1 ELSE 2 * Pow2(k - 1)

LimbBase == Pow2(LimbBits)

\* Number of bits of k (0 for 0).
RECURSIVE BitLen(_)
BitLen(k) == IF k = 0 THEN 0 ELSE 1 + BitLen(k \div 2)

FloatZero == [sig |-> <<0, 0, 0, 0, 0>>, scale |-> 0]

IsZero(x) == \A j \in 1..NLimbs : x.sig[j] = 0

\* limbs * m + carry, every limb but the top one reduced below LimbBase.
RECURSIVE MulAdd(_, _, _)
MulAdd(limbs, m, carry) ==
  IF Len(limbs) = 1 THEN <<limbs[1] * m + carry>>
  ELSE <<(limbs[1] * m + carry) % LimbBase>>
       \o MulAdd(Tail(limbs), m, (limbs[1] * m + carry) \div LimbBase)

\* Bit k (bit 0 is the least significant) of the number limbs denote.
BitAt(limbs, k) ==
  (limbs[(k \div LimbBits) + 1] \div Pow2(k % LimbBits)) % 2

\* Whether the k low bits of the number are not all zero.
LowBitsSet(limbs, k) ==
  \/ \E j \in 1..(k \div LimbBits) : limbs[j] # 0
  \/ /\ k % LimbBits # 0
     /\ limbs[(k \div LimbBits) + 1] % Pow2(k % LimbBits) # 0

\* Limb j of the number with its k low bits cleared.
ClearedLimb(limbs, k, j) ==
  IF j <= k \div LimbBits THEN 0
  ELSE IF j = (k \div LimbBits) + 1
       THEN limbs[j] - (limbs[j] % Pow2(k % LimbBits))
       ELSE limbs[j]

\* The number with its k low bits cleared.
ClearLow(limbs, k) ==
  <<ClearedLimb(limbs, k, 1), ClearedLimb(limbs, k, 2),
    ClearedLimb(limbs, k, 3), ClearedLimb(limbs, k, 4),
    ClearedLimb(limbs, k, 5)>>

\* Limb j of the number plus 2^k, before the carries are passed on.
BumpedLimb(limbs, k, j) ==
  IF j = (k \div LimbBits) + 1 THEN limbs[j] + Pow2(k % LimbBits)
  ELSE limbs[j]

\* The number plus 2^k.
AddPow2(limbs, k) ==
  MulAdd(<<BumpedLimb(limbs, k, 1), BumpedLimb(limbs, k, 2),
           BumpedLimb(limbs, k, 3), BumpedLimb(limbs, k, 4),
           BumpedLimb(limbs, k, 5)>>, 1, 0)

\* What limb j (holding bits lo .. lo + LimbBits - 1) adds to number \div 2^k.
LimbShifted(limb, lo, k) ==
  IF lo + LimbBits <= k THEN 0
  ELSE IF lo < k THEN limb \div Pow2(k - lo)
  ELSE limb * Pow2(lo - k)

\* The number divided by 2^k, rounded down (the result fits an int).
RECURSIVE HighPart(_, _, _)
HighPart(limbs, k, j) ==
  IF j > NLimbs THEN 0
  ELSE LimbShifted(limbs[j], (j - 1) * LimbBits, k) + HighPart(limbs, k, j + 1)

\* Round to nearest, ties to even, at bit k: the k low bits are dropped.
RoundAt(limbs, k) ==
  IF k = 0 THEN limbs
  ELSE LET half == BitAt(limbs, k - 1) = 1
           below == LowBitsSet(limbs, k - 1)
           odd == BitAt(limbs, k) = 1
           kept == ClearLow(limbs, k)
       IN IF half /\ (below \/ odd) THEN AddPow2(kept, k) ELSE kept

\* Number of bits of the number limbs denote (its top limb is not 0).
SigBits(limbs) == (NLimbs - 1) * LimbBits + BitLen(limbs[NLimbs])

\* The least e with a * 2^e >= b (for 0 < a < b).
RECURSIVE ShiftUp(_, _)
ShiftUp(a, b) == IF a >= b THEN 0 ELSE 1 + ShiftUp(2 * a, b)

\* The greatest e with b * 2^e <= a (for 0 < b <= a).
RECURSIVE ShiftDown(_, _)
ShiftDown(a, b) == IF 2 * b > a THEN 0 ELSE 1 + ShiftDown(a, 2 * b)

\* One limb of long division: the next LimbBits quotient bits of rem / den.
DivLimb(rem, den) ==
  [q |-> (rem * LimbBase) \div den, rem |-> (rem * LimbBase) % den]

\* a / b on two ints (true division), correctly rounded; a >= 0 and b > 0.
\* The quotient is scaled into [1, 2): its leading bit and then 52 bits.
FloatDiv(a, b) ==
  IF a = 0 THEN FloatZero
  ELSE LET up == IF a < b THEN ShiftUp(a, b) ELSE 0
           down == IF a < b THEN 0 ELSE ShiftDown(a, b)
           num == a * Pow2(up)
           den == b * Pow2(down)
           d4 == DivLimb(num - den, den)
           d3 == DivLimb(d4.rem, den)
           d2 == DivLimb(d3.rem, den)
           d1 == DivLimb(d2.rem, den)
           sig == <<d1.q, d2.q, d3.q, d4.q, 1>>
           roundUp == \/ 2 * d1.rem > den
                      \/ 2 * d1.rem = den /\ d1.q % 2 = 1
       IN [sig |-> IF roundUp THEN AddPow2(sig, 0) ELSE sig,
           scale |-> (down - up) - (MantDig - 1)]

\* x * m for a float x and a small positive int m, correctly rounded.
FloatMulInt(x, m) ==
  IF IsZero(x) THEN FloatZero
  ELSE LET p == MulAdd(x.sig, m, 0)
           extra == SigBits(p) - MantDig
       IN [sig |-> IF extra > 0 THEN RoundAt(p, extra) ELSE p,
           scale |-> x.scale]

\* round(x, 1) for a float x >= 0 with x.scale < 0, as a number of tenths:
\* the exact binary value of x rounded to one decimal, ties to even
\* (float.__round__ goes through the correctly rounded decimal conversion).
RoundTenths(x) ==
  IF IsZero(x) THEN 0
  ELSE LET p == MulAdd(x.sig, 10, 0)
       IN HighPart(RoundAt(p, -x.scale), -x.scale, 1)

(***************************************************************************)
(* Values of the program.                                                  *)
(***************************************************************************)
\* The three status values the counts of lines 19-21 compare against.
Statuses == {"implemented", "in_progress", "not_implemented"}

\* A status value that none of lines 19-21 compares against.
OtherStatus == "planned"

\* A control is a dict: here a record with an id and, usually, a status.
Control(s) == [id |-> "AC", status |-> s]
ControlNoStatus == [id |-> "AC"]

ControlValues ==
  {Control(s) : s \in Statuses \cup {OtherStatus}} \cup {ControlNoStatus}

SeqsUpTo(S, n) == UNION {[1..k -> S] : k \in 0..n}

\* What yaml.safe_load returns: None (an empty document) or a dict.
NoneValue == [type |-> "NoneType", keys |-> {}, controls |-> <<>>]
DictNoControls == [type |-> "dict", keys |-> {"version"}, controls |-> <<>>]
DictControls(cs) == [type |-> "dict", keys |-> {"controls"}, controls |-> cs]

\* compliance-mapping.yml: absent, not YAML, or a YAML document.
AbsentFile == [present |-> FALSE, yaml |-> FALSE, value |-> NoneValue]
InvalidYamlFile == [present |-> TRUE, yaml |-> FALSE, value |-> NoneValue]
YamlFile(v) == [present |-> TRUE, yaml |-> TRUE, value |-> v]

\* What datetime.now().strftime('%B %d, %Y') can give on the day of a run.
Dates == {"November 03, 2026", "November 04, 2026"}

\* A report left in reports/compliance-report.html by something earlier.
StaleReport == [generated |-> "earlier", total |-> 0, sections |-> <<>>]

\* Names bound at module level (lines 7-31) and the builtins the code uses.
ModuleGlobals ==
  {"yaml", "datetime", "Path", "load_mapping", "calculate_coverage",
   "generate_html"}
Builtins == {"open", "len", "sum", "round", "print"}

Return(v) == [raised |-> "none", value |-> v]
Raise(e, v) == [raised |-> e, value |-> v]

(***************************************************************************)
(* calculate_coverage, lines 16-29.                                        *)
(***************************************************************************)
\* c['status'] is defined for every control of the list.
AllHaveStatus(controls) ==
  \A j \in 1..Len(controls) : "status" \in DOMAIN controls[j]

\* sum(1 for c in controls if c['status'] == s); the first definition is
\* the variant that skips the first control.
CountStatusFromSecond(controls, s) ==
  Cardinality({j \in 2..Len(controls) : controls[j].status = s})
CountStatus(controls, s) ==
  Cardinality({j \in 1..Len(controls) : controls[j].status = s})

\* implemented / total
TrueDiv(a, b) ==
  IF b = 0 THEN Raise("ZeroDivisionError", FloatZero)
  ELSE Return(FloatDiv(a, b))

\* round((implemented / total) * 100, 1) if total > 0 else 0, in tenths;
\* the first definition is the variant without the guard total > 0.
PercentageUnguarded(implemented, total) ==
  LET q == TrueDiv(implemented, total)
  IN IF q.raised # "none" THEN Raise(q.raised, 0)
     ELSE Return(RoundTenths(FloatMulInt(q.value, 100)))
Percentage(implemented, total) ==
  IF total > 0
  THEN LET q == TrueDiv(implemented, total)
       IN IF q.raised # "none" THEN Raise(q.raised, 0)
          ELSE Return(RoundTenths(FloatMulInt(q.value, 100)))
  ELSE Return(0)

NoStats ==
  [total |-> 0, implemented |-> 0, in_progress |-> 0, not_implemented |-> 0,
   percentage |-> 0]

\* The function of lines 16-29, after two variants of it: one whose
\* in_progress count repeats the comparison of line 19, and one that takes
\* not_implemented as whatever the other two counts leave of total.
CalculateCoverageCopyPaste(controls) ==
  IF ~AllHaveStatus(controls) THEN Raise("KeyError", NoStats)
  ELSE LET total == Len(controls)
           implemented == CountStatus(controls, "implemented")
           in_progress == CountStatus(controls, "implemented")
           not_implemented == CountStatus(controls, "not_implemented")
           percentage == Percentage(implemented, total)
       IN IF percentage.raised # "none"
          THEN Raise(percentage.raised, NoStats)
          ELSE Return([total |-> total,
                       implemented |-> implemented,
                       in_progress |-> in_progress,
                       not_implemented |-> not_implemented,
                       percentage |-> percentage.value])
CalculateCoverageElseBucket(controls) ==
  IF ~AllHaveStatus(controls) THEN Raise("KeyError", NoStats)
  ELSE LET total == Len(controls)
           implemented == CountStatus(controls, "implemented")
           in_progress == CountStatus(controls, "in_progress")
           not_implemented == total - implemented - in_progress
           percentage == Percentage(implemented, total)
       IN IF percentage.raised # "none"
          THEN Raise(percentage.raised, NoStats)
          ELSE Return([total |-> total,
                       implemented |-> implemented,
                       in_progress |-> in_progress,
                       not_implemented |-> not_implemented,
                       percentage |-> percentage.value])
CalculateCoverage(controls) ==
  IF ~AllHaveStatus(controls) THEN Raise("KeyError", NoStats)
  ELSE LET total == Len(controls)
           implemented == CountStatus(controls, "implemented")
           in_progress == CountStatus(controls, "in_progress")
           not_implemented == CountStatus(controls, "not_implemented")
           percentage == Percentage(implemented, total)
       IN IF percentage.raised # "none"
          THEN Raise(percentage.raised, NoStats)
          ELSE Return([total |-> total,
                       implemented |-> implemented,
                       in_progress |-> in_progress,
                       not_implemented |-> not_implemented,
                       percentage |-> percentage.value])

(***************************************************************************)
(* generate_html, lines 31-69.                                             *)
(***************************************************************************)
\* mapping['controls'], line 33 and line 58; the first definition is the
\* variant mapping.get('controls', []).
SubscriptControlsOrEmpty(value) ==
  IF value.type = "dict" /\ "controls" \in value.keys
  THEN Return(value.controls)
  ELSE Return(<<>>)
SubscriptControls(value) ==
  IF value.type # "dict" THEN Raise("TypeError", <<>>)
  ELSE IF "controls" \notin value.keys THEN Raise("KeyError", <<>>)
  ELSE Return(value.controls)

\* The f-string of lines 36-61.  Its replacement fields are evaluated in
\* order: the date (line 46), coverage['total'] (line 52) and the call of
\* generate_control_sections (line 58), a name that is bound nowhere in the
\* module, so that the lookup of line 58 raises NameError.  Were the name
\* bound, the text would hold what the call returns for the controls.
FormatHtml(date, stats, controls) ==
  IF "generate_control_sections" \notin ModuleGlobals \cup Builtins
  THEN Raise("NameError", StaleReport)
  ELSE Return([generated |-> date,
               total |-> stats.total,
               sections |-> controls])

\* The two lines printed at lines 68-69.
Confirmation(stats) ==
  <<[line |-> "Report generated",
     path |-> "reports/compliance-report.html",
     percentage |-> 0, implemented |-> 0, total |-> 0],
    [line |-> "Coverage",
     path |-> "",
     percentage |-> stats.percentage,
     implemented |-> stats.implemented,
     total |-> stats.total]>>

(***************************************************************************)
(* State of one run of the program.                                        *)
(***************************************************************************)
VARIABLES
  pc,          \* where the run is: "main", "loaded", "render", "exited"
  inputFile,   \* compliance-mapping.yml
  now,         \* the date datetime.now() formats during the run
  reportsDir,  \* whether the directory reports/ exists
  reportFile,  \* reports/compliance-report.html: <<>> or <<its content>>
  mapping,     \* the global mapping: <<>> (unbound) or <<value>>
  coverage,    \* generate_html's local coverage: <<>> or <<stats>>
  exc,         \* the exception that ended the run, or "none"
  raisedIn,    \* the function whose frame raised it
  stdout,      \* the lines printed
  before       \* reports/ and the report file as the run found them

vars ==
  <<pc, inputFile, now, reportsDir, reportFile, mapping, coverage, exc,
    raisedIn, stdout, before>>

\* Every input file with at most MaxLen controls, in every order.
InputFiles ==
  {AbsentFile, InvalidYamlFile, YamlFile(NoneValue), YamlFile(DictNoControls)}
  \cup {YamlFile(DictControls(cs)) : cs \in SeqsUpTo(ControlValues, MaxLen)}

\* i controls implemented, j in progress, the rest not implemented.
Block(i, j, n) ==
  [k \in 1..n |->
     Control(IF k <= i THEN "implemented"
             ELSE IF k <= i + j THEN "in_progress"
             ELSE "not_implemented")]

\* Valid input files with up to MaxTotal controls, given by their counts.
WideInputFiles ==
  {YamlFile(DictControls(Block(i, j, n))) :
     i \in 0..MaxTotal, j \in 0..1, n \in 0..MaxTotal}

InitRun(files) ==
  /\ pc = "main"
  /\ inputFile \in files
  /\ now \in Dates
  /\ reportsDir \in BOOLEAN
  /\ reportFile \in {<<>>, <<StaleReport>>}
  /\ reportFile # <<>> => reportsDir
  /\ mapping = <<>>
  /\ coverage = <<>>
  /\ exc = "none"
  /\ raisedIn = ""
  /\ stdout = <<>>
  /\ before = [dir |-> reportsDir, file |-> reportFile]

Init == InitRun(InputFiles)

InitWide == InitRun(WideInputFiles)

\* The run ends with exception e raised in function f.
Exit(e, f) ==
  /\ pc' = "exited"
  /\ exc' = e
  /\ raisedIn' = f

\* Line 72: mapping = load_mapping(), lines 11-14.  open raises when the
\* file is absent and yaml.safe_load when it is not YAML; otherwise the
\* loaded value is returned as it is.
LoadMapping ==
  /\ pc = "main"
  /\ IF ~inputFile.present
     THEN Exit("FileNotFoundError", "load_mapping") /\ UNCHANGED mapping
     ELSE IF ~inputFile.yaml
     THEN Exit("YAMLError", "load_mapping") /\ UNCHANGED mapping
     ELSE /\ mapping' = <<inputFile.value>>
          /\ pc' = "loaded"
          /\ UNCHANGED <<exc, raisedIn>>
  /\ UNCHANGED <<inputFile, now, reportsDir, reportFile, coverage, stdout,
                 before>>

\* Line 73 and line 33: coverage = calculate_coverage(mapping['controls']).
GenerateHtmlCoverage ==
  /\ pc = "loaded"
  /\ LET controls == SubscriptControls(mapping[1])
         stats == CalculateCoverage(controls.value)
     IN IF controls.raised # "none"
        THEN Exit(controls.raised, "generate_html") /\ UNCHANGED coverage
        ELSE IF stats.raised # "none"
        THEN Exit(stats.raised, "calculate_coverage") /\ UNCHANGED coverage
        ELSE /\ coverage' = <<stats.value>>
             /\ pc' = "render"
             /\ UNCHANGED <<exc, raisedIn>>
  /\ UNCHANGED <<inputFile, now, reportsDir, reportFile, mapping, stdout,
                 before>>

\* Lines 36-69: build the text, then mkdir, write_text and the two prints;
\* the first definition is the variant that calls mkdir before building
\* the text.
GenerateHtmlRenderMkdirFirst ==
  /\ pc = "render"
  /\ LET html == FormatHtml(now, coverage[1], mapping[1].controls)
     IN IF html.raised # "none"
        THEN /\ Exit(html.raised, "generate_html")
             /\ reportsDir' = TRUE
             /\ UNCHANGED <<reportFile, stdout>>
        ELSE /\ reportsDir' = TRUE
             /\ reportFile' = <<html.value>>
             /\ stdout' = stdout \o Confirmation(coverage[1])
             /\ Exit("none", "")
  /\ UNCHANGED <<inputFile, now, mapping, coverage, before>>
GenerateHtmlRender ==
  /\ pc = "render"
  /\ LET html == FormatHtml(now, coverage[1], mapping[1].controls)
     IN IF html.raised # "none"
        THEN /\ Exit(html.raised, "generate_html")
             /\ UNCHANGED <<reportsDir, reportFile, stdout>>
        ELSE /\ reportsDir' = TRUE
             /\ reportFile' = <<html.value>>
             /\ stdout' = stdout \o Confirmation(coverage[1])
             /\ Exit("none", "")
  /\ UNCHANGED <<inputFile, now, mapping, coverage, before>>

Next ==
  \/ LoadMapping
  \/ GenerateHtmlCoverage
  \/ GenerateHtmlRender

Spec == Init /\ [][Next]_vars

SpecWide == InitWide /\ [][Next]_vars

(***************************************************************************)
(* Vocabulary of the properties.                                           *)
(***************************************************************************)
\* The input is a YAML dict with a controls key.
HasControls ==
  /\ inputFile.present
  /\ inputFile.yaml
  /\ inputFile.value.type = "dict"
  /\ "controls" \in inputFile.value.keys

InputControls == inputFile.value.controls

\* Every control has a status field.
StatusEverywhere ==
  \A j \in 1..Len(InputControls) : "status" \in DOMAIN InputControls[j]

\* A valid input: every control has one of the three statuses.
ValidInput ==
  /\ HasControls
  /\ StatusEverywhere
  /\ \A j \in 1..Len(InputControls) : InputControls[j].status \in Statuses

\* Number of controls of the input whose status is s.
Occurrences(s) == Len(SelectSeq(InputControls, LAMBDA c : c.status = s))

Aggregated == coverage # <<>>

\* round(100 * i / n, 1) as Python evaluates it, in tenths.
RoundedRatio(i, n) == RoundTenths(FloatDiv(100 * i, n))

FilesystemUntouched ==
  /\ reportsDir = before.dir
  /\ reportFile = before.file

(***************************************************************************)
(* C1.  For a valid control list with n controls of which i are            *)
(* implemented, the percentage is round(100 * i / n, 1) when n > 0 and 0   *)
(* when n = 0.                                                             *)
(***************************************************************************)
C1_PercentageIsRoundedRatio ==
  (Aggregated /\ ValidInput) =>
    coverage[1].percentage =
      IF Len(InputControls) > 0
      THEN RoundedRatio(Occurrences("implemented"), Len(InputControls))
      ELSE 0

(***************************************************************************)
(* C2.  For the statistics of a well-formed control list, implemented +    *)
(* in_progress + not_implemented = total.                                  *)
(***************************************************************************)
C2_CountsSumToTotal ==
  (Aggregated /\ ValidInput) =>
    coverage[1].implemented + coverage[1].in_progress
      + coverage[1].not_implemented = coverage[1].total

C2_Witness ==
  /\ Aggregated
  /\ ValidInput
  /\ coverage[1].implemented = 1
  /\ coverage[1].in_progress = 1
  /\ coverage[1].not_implemented = 1

(***************************************************************************)
(* C3.  For a valid control list, total is its length and each count is    *)
(* the number of controls with exactly that status, whatever their order;  *)
(* [implemented, implemented, in_progress, not_implemented] gives total 4, *)
(* implemented 2, in_progress 1, not_implemented 1, percentage 50.0.       *)
(***************************************************************************)
ExampleControls ==
  <<Control("implemented"), Control("implemented"), Control("in_progress"),
    Control("not_implemented")>>

ExampleStats ==
  [total |-> 4, implemented |-> 2, in_progress |-> 1, not_implemented |-> 1,
   percentage |-> 500]

C3_CountsByStatus ==
  (Aggregated /\ ValidInput) =>
    /\ coverage[1].total = Len(InputControls)
    /\ coverage[1].implemented = Occurrences("implemented")
    /\ coverage[1].in_progress = Occurrences("in_progress")
    /\ coverage[1].not_implemented = Occurrences("not_implemented")
    /\ InputControls = ExampleControls => coverage[1] = ExampleStats

C3_Witness ==
  /\ Aggregated
  /\ InputControls = ExampleControls
  /\ coverage[1] = ExampleStats

(***************************************************************************)
(* C4.  Given zero controls, calculate_coverage returns all four counts 0  *)
(* and percentage 0 and does not raise: the division is not evaluated.     *)
(***************************************************************************)
C4_EmptyListAllZero ==
  (HasControls /\ InputControls = <<>> /\ pc \in {"render", "exited"}) =>
    /\ coverage = <<NoStats>>
    /\ raisedIn # "calculate_coverage"
    /\ exc # "ZeroDivisionError"

C4_Witness ==
  /\ HasControls
  /\ InputControls = <<>>
  /\ pc = "render"
  /\ coverage = <<NoStats>>

(***************************************************************************)
(* C5.  Given a parseable input whose top-level controls key is missing,   *)
(* load_mapping itself fails with a SchemaError, and the report file is    *)
(* neither created nor modified.                                           *)
(***************************************************************************)
MissingControls ==
  /\ inputFile.present
  /\ inputFile.yaml
  /\ inputFile.value.type = "dict"
  /\ "controls" \notin inputFile.value.keys

C6_NoWriteOnFailure ==
  /\ (pc = "exited" /\ exc # "none") => FilesystemUntouched
  /\ ~FilesystemUntouched => mapping # <<>> /\ Aggregated /\ exc = "none"

C6_Witness ==
  /\ pc = "exited"
  /\ exc = "NameError"
  /\ Aggregated
  /\ ~before.dir
  /\ ~reportsDir
  /\ reportFile = <<>>

(***************************************************************************)
(* C7.  For every valid input and every initial state of reports/, the run *)
(* ends successfully: the report directory exists, the report file holds   *)
(* the complete text, and the confirmation lines with the path and the     *)
(* percentage have been printed.                                           *)
(***************************************************************************)
C7_ValidRunSucceeds ==
  (ValidInput /\ pc = "exited") =>
    /\ exc = "none"
    /\ reportsDir
    /\ reportFile # <<>>
    /\ reportFile # before.file
    /\ Aggregated
    /\ stdout = Confirmation(coverage[1])

(***************************************************************************)
(* C8.  The document written includes the generation timestamp, the total, *)
(* implemented, in-progress and not-implemented counts, the percentage and *)
(* a section per control.                                                  *)
(***************************************************************************)
ReportFields ==
  {"generated", "total", "implemented", "in_progress", "not_implemented",
   "percentage", "sections"}

C8_ReportHasEveryField ==
  (ValidInput /\ pc = "exited") =>
    /\ reportFile # <<>>
    /\ ReportFields \subseteq DOMAIN reportFile[1]

(***************************************************************************)
(* C9.  Apart from the timestamp, the final content of the report file     *)
(* depends only on the input mapping: not on what the file held before,    *)
(* nor on whether reports/ existed.                                        *)
(***************************************************************************)
C9_ContentDependsOnInputOnly ==
  (ValidInput /\ pc = "exited") =>
    /\ reportFile # <<>>
    /\ reportFile[1].total = Len(InputControls)
    /\ reportFile[1].sections = InputControls

(***************************************************************************)
(* C10.  A control whose status is none of the three values raises no      *)
(* error: it counts in total and in none of the three counts, so their sum *)
(* falls short of total by the number of such controls, and the percentage *)
(* is still taken against the full total.                                  *)
(***************************************************************************)
Unrecognised ==
  Len(SelectSeq(InputControls, LAMBDA c : c.status \notin Statuses))

C10_UnrecognisedStatusUncounted ==
  (HasControls /\ StatusEverywhere /\ pc \in {"render", "exited"}) =>
    /\ Aggregated
    /\ raisedIn # "calculate_coverage"
    /\ coverage[1].total = Len(InputControls)
    /\ coverage[1].implemented + coverage[1].in_progress
         + coverage[1].not_implemented = coverage[1].total - Unrecognised
    /\ coverage[1].percentage =
         Percentage(Occurrences("implemented"), Len(InputControls)).value

C10_Witness ==
  /\ HasControls
  /\ StatusEverywhere
  /\ Aggregated
  /\ Unrecognised = 2
  /\ coverage[1].total = 3
  /\ coverage[1].implemented = 1
  /\ coverage[1].percentage = 333

====
